---- MODULE Spec2Model ----
(***************************************************************************)
(* Startup and lifecycle orchestration of ddns-go (main.go): flag parsing, *)
(* listen-address validation, propagation of process-wide values, the      *)
(* reset-password mode, the forked web service with its delayed exit, the  *)
(* connectivity gate and the update timer.                                 *)
(***************************************************************************)
EXTENDS Integers, Sequences, FiniteSets, TLC

\* ---------------------------------------------------------------- bounds
\* Largest number of failing connectivity probes explored.
MaxProbeFails == 2
\* Largest number of update cycles explored.
MaxCycles == 2
\* Number of clock ticks that make up the one-minute sleep.
GraceTicks == 2

\* ------------------------------------------------------- program constants
version == "DEV"
DefaultCacheTimes == 5
\* status of a process whose main() returns
ReturnExitCode == 0
\* status log.Fatalf exits with
FatalExitCode == 1
\* os.Exit called with the status of a normal return.
WebExitCode_Success == ReturnExitCode
\* os.Exit(1) in the web goroutine
WebExitCode == 1

EnvNames == {"VersionEnv", "ConfigFilePathENV", "IPCacheTimesENV"}

\* Listen addresses tried: wildcard host, a global unicast literal, a host
\* name that needs a lookup, and a string that is no TCP address.
ListenAddrs == {":9876", "192.168.1.2:9876", "myhost:9876", "nope"}

\* net.ResolveTCPAddr("tcp", l): the set of results the call can produce.
\* A literal always resolves the same way; a host name depends on a lookup
\* that may fail on one call and succeed on another.
ResolveTCPAddr(l) ==
    CASE l = ":9876" ->
           {[err |-> FALSE, port |-> 9876, global |-> FALSE, str |-> ":9876"]}
      [] l = "192.168.1.2:9876" ->
           {[err |-> FALSE, port |-> 9876, global |-> TRUE,
             str |-> "192.168.1.2:9876"]}
      [] l = "myhost:9876" ->
           {[err |-> FALSE, port |-> 9876, global |-> TRUE,
             str |-> "10.0.0.7:9876"],
            [err |-> TRUE, port |-> 0, global |-> FALSE, str |-> ""]}
      [] OTHER ->
           {[err |-> TRUE, port |-> 0, global |-> FALSE, str |-> ""]}

\* filepath.Abs(p) for the paths tried: a relative path is joined to the
\* working directory, an absolute one is kept.
Abs(p) == IF p = "conf.yaml" THEN "/cwd/conf.yaml" ELSE p

\* The command lines explored (flag.Parse).
Flags ==
    [versionFlag  : BOOLEAN,
     listen       : ListenAddrs,
     ipCacheTimes : {DefaultCacheTimes},
     configFilePath : {"", "conf.yaml"},
     noWebService : BOOLEAN,
     skipVerify   : BOOLEAN,
     customDNS    : {"", "8.8.8.8"},
     newPassword  : {"", "secret"}]

\* The routes runWebServer registers.
RouteTable ==
    {"/static/", "/favicon.ico", "/login", "/loginFunc", "/", "/save",
     "/logs", "/clearLog", "/webhookTest", "/logout"}

VARIABLES
    flags,          \* parsed command line
    goosAndroid,    \* runtime.GOOS == "android"
    configExists,   \* the cached configuration can be loaded
    runInDocker,    \* util.IsRunInDocker()
    mainpc,         \* position of the main goroutine
    webpc,          \* position of the web goroutine ("none" = not forked)
    explorerpc,     \* position of the browser goroutine
    tzFixed,        \* util.FixTimezone was called
    env,            \* process environment: name -> value ("" = unset)
    envWrites,      \* name -> number of os.Setenv calls
    insecureSkipVerify, \* util.SetInsecureSkipVerify was called
    dnsServer,      \* value given to util.SetDNS ("" = never called)
    loadResult,     \* result of main's GetConfigCached: "none", "ok", "err"
    configLoads,    \* number of GetConfigCached calls made
    pwMutations,    \* number of conf.ResetPassword calls
    migrated,       \* conf.CompatibleConfig was called
    langInit,       \* util.InitLogLang was called
    backupDNSInit,  \* util.InitBackupDNS was called
    stdout,         \* lines printed on standard output
    logs,           \* log lines, in order
    routes,         \* registered HTTP routes
    socketBound,    \* net.Listen succeeded
    webErr,         \* error returned by runWebServer ("" = none)
    graceElapsed,   \* ticks of time.Sleep(time.Minute) elapsed
    openedURL,      \* url handed to util.OpenExplorer
    probeFails,     \* failed connectivity probes
    connected,      \* a connectivity probe succeeded
    cycles,         \* update cycles run
    exited,         \* the process has terminated
    exitCode        \* its exit status

vars == <<flags, goosAndroid, configExists, runInDocker, mainpc, webpc,
          explorerpc, tzFixed, env, envWrites, insecureSkipVerify, dnsServer,
          loadResult, configLoads, pwMutations, migrated, langInit,
          backupDNSInit, stdout, logs, routes, socketBound, webErr,
          graceElapsed, openedURL, probeFails, connected, cycles, exited,
          exitCode>>

environment == <<flags, goosAndroid, configExists, runInDocker>>
mainLocals == <<tzFixed, env, envWrites, insecureSkipVerify, dnsServer,
                loadResult, pwMutations, migrated, langInit, backupDNSInit,
                stdout>>
webLocals == <<explorerpc, routes, socketBound, webErr, graceElapsed,
               openedURL>>
gateTimer == <<probeFails, connected, cycles>>
exitState == <<exited, exitCode>>

Init ==
    /\ flags \in Flags
    /\ goosAndroid \in BOOLEAN
    /\ configExists \in BOOLEAN
    /\ runInDocker \in BOOLEAN
    /\ mainpc = "parse"
    /\ webpc = "none"
    /\ explorerpc = "none"
    /\ tzFixed = FALSE
    /\ env = [n \in EnvNames |-> ""]
    /\ envWrites = [n \in EnvNames |-> 0]
    /\ insecureSkipVerify = FALSE
    /\ dnsServer = ""
    /\ loadResult = "none"
    /\ configLoads = 0
    /\ pwMutations = 0
    /\ migrated = FALSE
    /\ langInit = FALSE
    /\ backupDNSInit = FALSE
    /\ stdout = <<>>
    /\ logs = <<>>
    /\ routes = {}
    /\ socketBound = FALSE
    /\ webErr = ""
    /\ graceElapsed = 0
    /\ openedURL = ""
    /\ probeFails = 0
    /\ connected = FALSE
    /\ cycles = 0
    /\ exited = FALSE
    /\ exitCode = 0

\* ------------------------------------------------------ collaborators
\* config.GetConfigCached(): the cached configuration, or an error when no
\* configuration can be loaded.
GetConfigCached(exists) == IF exists THEN "ok" ELSE "err"

\* ------------------------------------------------------- main goroutine
\* main() with dns.RunTimer called before util.WaitInternet.
MainSequence_TimerBeforeGate ==
    <<"parse", "tz", "resolve", "setVersion", "setConfigPath", "reset",
      "skipVerify", "setDNS", "setCache", "load", "compat", "lang", "fork",
      "backupDNS", "timer", "wait">>

\* main() with the web goroutine started before the cache threshold is
\* exported and the configuration loaded.
MainSequence_ForkBeforeCache ==
    <<"parse", "tz", "resolve", "setVersion", "setConfigPath", "reset",
      "skipVerify", "setDNS", "fork", "setCache", "load", "compat", "lang",
      "backupDNS", "wait", "timer">>

\* main() with the reset-password branch placed before the config path is
\* exported.
MainSequence_ResetBeforePath ==
    <<"parse", "tz", "resolve", "setVersion", "reset", "setConfigPath",
      "skipVerify", "setDNS", "setCache", "load", "compat", "lang", "fork",
      "backupDNS", "wait", "timer">>

\* main() with the web goroutine started only after the connectivity gate.
MainSequence_ForkAfterGate ==
    <<"parse", "tz", "resolve", "setVersion", "setConfigPath", "reset",
      "skipVerify", "setDNS", "setCache", "load", "compat", "lang",
      "backupDNS", "wait", "fork", "timer">>

\* The statements of main() in program order.
MainSequence ==
    <<"parse", "tz", "resolve", "setVersion", "setConfigPath", "reset",
      "skipVerify", "setDNS", "setCache", "load", "compat", "lang", "fork",
      "backupDNS", "wait", "timer">>

\* The statement that follows pc in main().
After(pc) ==
    LET i == CHOOSE k \in 1..Len(MainSequence) : MainSequence[k] = pc
    IN  MainSequence[i + 1]

\* The version branch without its return.
AfterParse_NoReturn(f) == After("parse")

\* if *versionFlag { ...; return }
AfterParse(f) == IF f.versionFlag THEN "returned" ELSE After("parse")

\* The address check logging with log.Printf instead of log.Fatalf.
AfterResolve_NoFatal(err) == After("resolve")

\* if _, err := net.ResolveTCPAddr(...); err != nil { log.Fatalf(...) }
AfterResolve(err) == IF err THEN "fatal" ELSE After("resolve")

\* The reset-password branch without its return.
AfterReset_NoReturn(f) == After("reset")

\* if *newPassword != "" { ...; return }
AfterReset(f) == IF f.newPassword # "" THEN "returned" ELSE After("reset")

\* The password reset applied whatever the load returned.
ResetApplies_Always(result) == TRUE

\* conf, err := config.GetConfigCached(); if err == nil { ResetPassword }
ResetApplies(result) == result = "ok"

\* The web goroutine started whatever -noweb says.
WebServiceEnabled_Always(f) == TRUE

\* if !*noWebService { go func() { ... }() }
WebServiceEnabled(f) == ~f.noWebService

\* Process termination with the given status.
Terminate(code) == exited' = TRUE /\ exitCode' = code

\* flag.Parse(); if *versionFlag { fmt.Println(version); return }
MainParse ==
    /\ ~exited /\ mainpc = "parse"
    /\ stdout' = IF flags.versionFlag THEN Append(stdout, version) ELSE stdout
    /\ mainpc' = AfterParse(flags)
    /\ IF mainpc' = "returned" THEN Terminate(ReturnExitCode)
                               ELSE UNCHANGED exitState
    /\ UNCHANGED <<environment, webpc, webLocals, gateTimer, tzFixed, env,
                   envWrites, insecureSkipVerify, dnsServer, loadResult,
                   configLoads, pwMutations, migrated, langInit,
                   backupDNSInit, logs>>

\* if runtime.GOOS == "android" { util.FixTimezone() }
MainFixTimezone ==
    /\ ~exited /\ mainpc = "tz"
    /\ tzFixed' = goosAndroid
    /\ mainpc' = After("tz")
    /\ UNCHANGED <<environment, webpc, webLocals, gateTimer, exitState, env,
                   envWrites, insecureSkipVerify, dnsServer, loadResult,
                   configLoads, pwMutations, migrated, langInit,
                   backupDNSInit, stdout, logs>>

\* net.ResolveTCPAddr("tcp", *listen); on error log.Fatalf, which logs and
\* exits with status 1.
MainResolveListen ==
    /\ ~exited /\ mainpc = "resolve"
    /\ \E r \in ResolveTCPAddr(flags.listen) :
         /\ mainpc' = AfterResolve(r.err)
         /\ logs' = IF r.err THEN Append(logs, "Parse listen address failed")
                             ELSE logs
    /\ IF mainpc' = "fatal" THEN Terminate(FatalExitCode)
                            ELSE UNCHANGED exitState
    /\ UNCHANGED <<environment, webpc, webLocals, gateTimer, tzFixed, env,
                   envWrites, insecureSkipVerify, dnsServer, loadResult,
                   configLoads, pwMutations, migrated, langInit,
                   backupDNSInit, stdout>>

\* os.Setenv(name, value)
Setenv(name, value) ==
    /\ env' = [env EXCEPT ![name] = value]
    /\ envWrites' = [envWrites EXCEPT ![name] = @ + 1]

\* os.Setenv(web.VersionEnv, version)
MainSetVersion ==
    /\ ~exited /\ mainpc = "setVersion"
    /\ Setenv("VersionEnv", version)
    /\ mainpc' = After("setVersion")
    /\ UNCHANGED <<environment, webpc, webLocals, gateTimer, exitState,
                   tzFixed, insecureSkipVerify, dnsServer, loadResult,
                   configLoads, pwMutations, migrated, langInit,
                   backupDNSInit, stdout, logs>>

\* The config path exported without the test for an empty -c.
MainSetConfigPath_Unconditional ==
    /\ ~exited /\ mainpc = "setConfigPath"
    /\ Setenv("ConfigFilePathENV", Abs(flags.configFilePath))
    /\ mainpc' = After("setConfigPath")
    /\ UNCHANGED <<environment, webpc, webLocals, gateTimer, exitState,
                   tzFixed, insecureSkipVerify, dnsServer, loadResult,
                   configLoads, pwMutations, migrated, langInit,
                   backupDNSInit, stdout, logs>>

\* if *configFilePath != "" { absPath, _ := filepath.Abs(...); os.Setenv }
MainSetConfigPath ==
    /\ ~exited /\ mainpc = "setConfigPath"
    /\ IF flags.configFilePath # ""
         THEN Setenv("ConfigFilePathENV", Abs(flags.configFilePath))
         ELSE UNCHANGED <<env, envWrites>>
    /\ mainpc' = After("setConfigPath")
    /\ UNCHANGED <<environment, webpc, webLocals, gateTimer, exitState,
                   tzFixed, insecureSkipVerify, dnsServer, loadResult,
                   configLoads, pwMutations, migrated, langInit,
                   backupDNSInit, stdout, logs>>

\* if *newPassword != "" { conf, err := GetConfigCached(); if err == nil
\* { conf.ResetPassword(...) } else { util.Log(...) }; return }
MainResetPassword ==
    /\ ~exited /\ mainpc = "reset"
    /\ IF flags.newPassword # ""
         THEN LET r == GetConfigCached(configExists) IN
              /\ loadResult' = r
              /\ configLoads' = configLoads + 1
              /\ pwMutations' = IF ResetApplies(r) THEN pwMutations + 1
                                                   ELSE pwMutations
              /\ logs' = IF ResetApplies(r) THEN logs
                         ELSE Append(logs, "config file does not exist")
         ELSE UNCHANGED <<loadResult, configLoads, pwMutations, logs>>
    /\ mainpc' = AfterReset(flags)
    /\ IF mainpc' = "returned" THEN Terminate(ReturnExitCode)
                               ELSE UNCHANGED exitState
    /\ UNCHANGED <<environment, webpc, webLocals, gateTimer, tzFixed, env,
                   envWrites, insecureSkipVerify, dnsServer, migrated,
                   langInit, backupDNSInit, stdout>>

\* if *skipVerify { util.SetInsecureSkipVerify() }
MainSkipVerify ==
    /\ ~exited /\ mainpc = "skipVerify"
    /\ insecureSkipVerify' = flags.skipVerify
    /\ mainpc' = After("skipVerify")
    /\ UNCHANGED <<environment, webpc, webLocals, gateTimer, exitState,
                   tzFixed, env, envWrites, dnsServer, loadResult,
                   configLoads, pwMutations, migrated, langInit,
                   backupDNSInit, stdout, logs>>

\* if *customDNS != "" { util.SetDNS(*customDNS) }
MainSetDNS ==
    /\ ~exited /\ mainpc = "setDNS"
    /\ dnsServer' = flags.customDNS
    /\ mainpc' = After("setDNS")
    /\ UNCHANGED <<environment, webpc, webLocals, gateTimer, exitState,
                   tzFixed, env, envWrites, insecureSkipVerify, loadResult,
                   configLoads, pwMutations, migrated, langInit,
                   backupDNSInit, stdout, logs>>

\* os.Setenv(util.IPCacheTimesENV, strconv.Itoa(*ipCacheTimes))
MainSetCacheTimes ==
    /\ ~exited /\ mainpc = "setCache"
    /\ Setenv("IPCacheTimesENV", ToString(flags.ipCacheTimes))
    /\ mainpc' = After("setCache")
    /\ UNCHANGED <<environment, webpc, webLocals, gateTimer, exitState,
                   tzFixed, insecureSkipVerify, dnsServer, loadResult,
                   configLoads, pwMutations, migrated, langInit,
                   backupDNSInit, stdout, logs>>

\* The load error checked and treated as fatal.
AfterLoad_Fatal(result) == IF result = "err" THEN "fatal" ELSE After("load")

\* conf, _ := config.GetConfigCached(): whatever the load returned, main
\* goes on with the next statement.
AfterLoad(result) == After("load")

\* conf, _ := config.GetConfigCached()   (the error is discarded)
MainLoadConfig ==
    /\ ~exited /\ mainpc = "load"
    /\ loadResult' = GetConfigCached(configExists)
    /\ configLoads' = configLoads + 1
    /\ mainpc' = AfterLoad(loadResult')
    /\ UNCHANGED <<environment, webpc, webLocals, gateTimer, exitState,
                   tzFixed, env, envWrites, insecureSkipVerify, dnsServer,
                   pwMutations, migrated, langInit, backupDNSInit, stdout,
                   logs>>

\* conf.CompatibleConfig()
MainCompatibleConfig ==
    /\ ~exited /\ mainpc = "compat"
    /\ migrated' = TRUE
    /\ mainpc' = After("compat")
    /\ UNCHANGED <<environment, webpc, webLocals, gateTimer, exitState,
                   tzFixed, env, envWrites, insecureSkipVerify, dnsServer,
                   loadResult, configLoads, pwMutations, langInit,
                   backupDNSInit, stdout, logs>>

\* util.InitLogLang(conf.Lang)
MainInitLogLang ==
    /\ ~exited /\ mainpc = "lang"
    /\ langInit' = TRUE
    /\ mainpc' = After("lang")
    /\ UNCHANGED <<environment, webpc, webLocals, gateTimer, exitState,
                   tzFixed, env, envWrites, insecureSkipVerify, dnsServer,
                   loadResult, configLoads, pwMutations, migrated,
                   backupDNSInit, stdout, logs>>

\* if !*noWebService { go func() { err := runWebServer() ... }() }
MainForkWeb ==
    /\ ~exited /\ mainpc = "fork"
    /\ webpc' = IF WebServiceEnabled(flags) THEN "routes" ELSE webpc
    /\ mainpc' = After("fork")
    /\ UNCHANGED <<environment, webLocals, gateTimer, exitState, mainLocals,
                   configLoads, logs>>

\* util.InitBackupDNS(*customDNS, conf.Lang)
MainInitBackupDNS ==
    /\ ~exited /\ mainpc = "backupDNS"
    /\ backupDNSInit' = TRUE
    /\ mainpc' = After("backupDNS")
    /\ UNCHANGED <<environment, webpc, webLocals, gateTimer, exitState,
                   tzFixed, env, envWrites, insecureSkipVerify, dnsServer,
                   loadResult, configLoads, pwMutations, migrated, langInit,
                   stdout, logs>>

\* util.WaitInternet(dns.Addresses): one probe that fails; the gate retries.
WaitInternetProbeFail ==
    /\ ~exited /\ mainpc = "wait"
    /\ ~connected
    /\ probeFails < MaxProbeFails
    /\ probeFails' = probeFails + 1
    /\ UNCHANGED <<environment, mainpc, webpc, webLocals, exitState,
                   mainLocals, configLoads, logs, connected, cycles>>

\* util.WaitInternet(dns.Addresses): one probe that succeeds; the gate
\* returns and main goes on to dns.RunTimer.
WaitInternetProbeOk ==
    /\ ~exited /\ mainpc = "wait"
    /\ connected' = TRUE
    /\ mainpc' = After("wait")
    /\ UNCHANGED <<environment, webpc, webLocals, exitState, mainLocals,
                   configLoads, logs, probeFails, cycles>>

\* dns.RunTimer(delay): one update cycle, at once and then on every tick;
\* RunTimer does not return.
RunTimerCycle ==
    /\ ~exited /\ mainpc = "timer"
    /\ cycles < MaxCycles
    /\ cycles' = cycles + 1
    /\ UNCHANGED <<environment, mainpc, webpc, webLocals, exitState,
                   mainLocals, configLoads, logs, probeFails, connected>>

\* -------------------------------------------------------- web goroutine
\* A failed net.Listen ending the process inside runWebServer.
BindErrorNext_DirectExit == "exit"

\* return errors.New(...) after a failed net.Listen: the error goes back to
\* the closure in main, which checks it.
BindErrorNext == "check"

\* The web service started again after http.Serve has failed.
ServeErrorNext_Restart == "listen"

\* return http.Serve(l, nil): the error goes back to the closure in main.
ServeErrorNext == "check"

\* os.Exit(1) reached without waiting for the sleep.
SleepDone_Immediately(g) == TRUE

\* A wait that never ends in place of the one-minute sleep.
SleepDone_Never(g) == FALSE

\* time.Sleep(time.Minute) has run its full length.
SleepDone(g) == g >= GraceTicks

\* url := fmt.Sprintf("http://127.0.0.1:%d", addr.Port), or
\* fmt.Sprintf("http://%s", addr.String()) for a global unicast address.
ExplorerURL(addr) ==
    IF addr.global THEN "http://" \o addr.str
                   ELSE "http://127.0.0.1:" \o ToString(addr.port)

\* runWebServer: the http.HandleFunc calls and util.Log("监听 %s", *listen)
WebRegisterRoutes ==
    /\ ~exited /\ webpc = "routes"
    /\ routes' = RouteTable
    /\ logs' = Append(logs, "listen")
    /\ webpc' = "listen"
    /\ UNCHANGED <<environment, mainpc, gateTimer, exitState, mainLocals,
                   configLoads, explorerpc, socketBound, webErr,
                   graceElapsed, openedURL>>

\* l, err := net.Listen("tcp", *listen); if err != nil { return errors.New }
WebListen ==
    /\ ~exited /\ webpc = "listen"
    /\ \E ok \in BOOLEAN :
         IF ok THEN /\ socketBound' = TRUE
                    /\ webpc' = "autoOpen"
                    /\ UNCHANGED webErr
               ELSE /\ webErr' = "bind"
                    /\ webpc' = BindErrorNext
                    /\ UNCHANGED socketBound
    /\ UNCHANGED <<environment, mainpc, gateTimer, exitState, mainLocals,
                   configLoads, logs, explorerpc, routes, graceElapsed,
                   openedURL>>

\* autoOpenExplorer handing a failed address resolution back as an error
\* of the web service.
WebAutoOpenExplorer_ResolveErrorReturned ==
    /\ ~exited /\ webpc = "autoOpen"
    /\ configLoads' = configLoads + 1
    /\ IF GetConfigCached(configExists) = "err"
         THEN IF runInDocker
                THEN /\ logs' = Append(logs, "docker hint")
                     /\ webpc' = "serve"
                     /\ UNCHANGED <<explorerpc, openedURL, webErr>>
                ELSE \E addr \in ResolveTCPAddr(flags.listen) :
                       IF addr.err
                         THEN /\ webErr' = "resolve"
                              /\ webpc' = "check"
                              /\ UNCHANGED <<logs, explorerpc, openedURL>>
                         ELSE /\ openedURL' = ExplorerURL(addr)
                              /\ explorerpc' = "running"
                              /\ webpc' = "serve"
                              /\ UNCHANGED <<logs, webErr>>
         ELSE /\ webpc' = "serve"
              /\ UNCHANGED <<logs, explorerpc, openedURL, webErr>>
    /\ UNCHANGED <<environment, mainpc, gateTimer, exitState, mainLocals,
                   routes, socketBound, graceElapsed>>

\* autoOpenExplorer(): with no configuration, the Docker hint or the
\* browser, started on a goroutine of its own; then on to http.Serve.
WebAutoOpenExplorer ==
    /\ ~exited /\ webpc = "autoOpen"
    /\ configLoads' = configLoads + 1
    /\ IF GetConfigCached(configExists) = "err"
         THEN IF runInDocker
                THEN /\ logs' = Append(logs, "docker hint")
                     /\ UNCHANGED <<explorerpc, openedURL>>
                ELSE \E addr \in ResolveTCPAddr(flags.listen) :
                       IF addr.err
                         THEN UNCHANGED <<logs, explorerpc, openedURL>>
                         ELSE /\ openedURL' = ExplorerURL(addr)
                              /\ explorerpc' = "running"
                              /\ UNCHANGED logs
         ELSE UNCHANGED <<logs, explorerpc, openedURL>>
    /\ webpc' = "serve"
    /\ UNCHANGED <<environment, mainpc, gateTimer, exitState, mainLocals,
                   routes, socketBound, webErr, graceElapsed>>

\* go util.OpenExplorer(url): the browser launch ends (or never does).
ExplorerFinish ==
    /\ ~exited /\ explorerpc = "running"
    /\ explorerpc' = "done"
    /\ UNCHANGED <<environment, mainpc, webpc, gateTimer, exitState,
                   mainLocals, configLoads, logs, routes, socketBound,
                   webErr, graceElapsed, openedURL>>

\* return http.Serve(l, nil): serving ends with an error.
WebServeFail ==
    /\ ~exited /\ webpc = "serve"
    /\ webErr' = "serve"
    /\ webpc' = ServeErrorNext
    /\ UNCHANGED <<environment, mainpc, gateTimer, exitState, mainLocals,
                   configLoads, logs, explorerpc, routes, socketBound,
                   graceElapsed, openedURL>>

\* err := runWebServer(); if err != nil { log.Println(err) ...
WebLogError ==
    /\ ~exited /\ webpc = "check"
    /\ IF webErr # ""
         THEN /\ logs' = Append(logs, webErr)
              /\ webpc' = "sleep"
         ELSE /\ webpc' = "ended"
              /\ UNCHANGED logs
    /\ UNCHANGED <<environment, mainpc, gateTimer, exitState, mainLocals,
                   configLoads, explorerpc, routes, socketBound, webErr,
                   graceElapsed, openedURL>>

\* time.Sleep(time.Minute): time passes.
WebSleepTick ==
    /\ ~exited /\ webpc = "sleep"
    /\ graceElapsed < GraceTicks
    /\ graceElapsed' = graceElapsed + 1
    /\ UNCHANGED <<environment, mainpc, webpc, gateTimer, exitState,
                   mainLocals, configLoads, logs, explorerpc, routes,
                   socketBound, webErr, openedURL>>

\* time.Sleep(time.Minute) returns.
WebWake ==
    /\ ~exited /\ webpc = "sleep"
    /\ SleepDone(graceElapsed)
    /\ webpc' = "exit"
    /\ UNCHANGED <<environment, mainpc, gateTimer, exitState, mainLocals,
                   configLoads, logs, explorerpc, routes, socketBound,
                   webErr, graceElapsed, openedURL>>

\* os.Exit(1)
WebExit ==
    /\ ~exited /\ webpc = "exit"
    /\ webpc' = "exited"
    /\ Terminate(WebExitCode)
    /\ UNCHANGED <<environment, mainpc, gateTimer, mainLocals, configLoads,
                   logs, explorerpc, routes, socketBound, webErr,
                   graceElapsed, openedURL>>

\* ------------------------------------------------------- specification
MainStep ==
    \/ MainParse
    \/ MainFixTimezone
    \/ MainResolveListen
    \/ MainSetVersion
    \/ MainSetConfigPath
    \/ MainResetPassword
    \/ MainSkipVerify
    \/ MainSetDNS
    \/ MainSetCacheTimes
    \/ MainLoadConfig
    \/ MainCompatibleConfig
    \/ MainInitLogLang
    \/ MainForkWeb
    \/ MainInitBackupDNS
    \/ WaitInternetProbeFail
    \/ WaitInternetProbeOk
    \/ RunTimerCycle

WebStep ==
    \/ WebRegisterRoutes
    \/ WebListen
    \/ WebAutoOpenExplorer
    \/ WebServeFail
    \/ WebLogError
    \/ WebSleepTick
    \/ WebWake
    \/ WebExit

Next == MainStep \/ WebStep \/ ExplorerFinish

Spec == Init /\ [][Next]_vars

\* The Go scheduler runs every runnable goroutine and time passes: the web
\* goroutine's steps from the returned error to os.Exit are taken.
FairSpec ==
    /\ Spec
    /\ WF_vars(WebLogError)
    /\ WF_vars(WebSleepTick)
    /\ WF_vars(WebWake)
    /\ WF_vars(WebExit)

\* ------------------------------------------------------------ properties
Range(q) == {q[i] : i \in DOMAIN q}

\* The listen address failed to resolve in main (the fatal log line).
ListenFailed == "Parse listen address failed" \in Range(logs)

\* The connectivity gate has been entered at some point.
GateEntered == mainpc \in {"wait", "timer"} \/ probeFails > 0 \/ connected

\* C1: once the listen address has failed to resolve, the process has
\* terminated with a non-zero status, and no socket was opened, no
\* configuration loaded (reset-password mode included) and no probe made;
\* an address that is no TCP address never gets main past the check.
C1_InvalidListenHaltsFirst ==
    /\ ListenFailed =>
         /\ exited /\ exitCode # 0 /\ mainpc = "fatal"
         /\ ~socketBound /\ webpc = "none" /\ routes = {}
         /\ configLoads = 0 /\ loadResult = "none" /\ pwMutations = 0
         /\ probeFails = 0 /\ ~connected /\ cycles = 0
    /\ (flags.listen = "nope" /\ ~flags.versionFlag) =>
         mainpc \in {"parse", "tz", "resolve", "fatal"}

C1_Witness ==
    /\ ListenFailed /\ exited /\ exitCode = 1
    /\ flags.newPassword # "" /\ configExists /\ ~flags.noWebService

\* C2: with -noweb, whatever the other flags, the web goroutine is never
\* started, no route is registered and no socket is bound.
C2_NoWebNoSocket ==
    flags.noWebService =>
        /\ webpc = "none" /\ routes = {} /\ ~socketBound
        /\ explorerpc = "none" /\ webErr = ""

C2_Witness == flags.noWebService /\ mainpc = "timer" /\ cycles > 0

\* C3: in reset-password mode with a configuration that loads, the process
\* mutates the password exactly once and exits with that; the web goroutine
\* is never started, the gate never entered and no update cycle runs.
C3_ResetPasswordOnly ==
    (flags.newPassword # "" /\ configExists) =>
        /\ webpc = "none" /\ routes = {} /\ ~socketBound
        /\ ~GateEntered /\ cycles = 0
        /\ pwMutations <= 1
        /\ (loadResult = "ok" => pwMutations = 1 /\ exited /\ exitCode = 0)
        /\ (loadResult # "ok" => pwMutations = 0)

C3_Witness ==
    /\ flags.newPassword # "" /\ loadResult = "ok" /\ pwMutations = 1
    /\ exited /\ ~flags.noWebService

\* C4 as stated: in reset-password mode with a configuration that cannot be
\* loaded, the process exits with nothing mutated: no password mutation, no
\* process-wide value written, no web service, no update loop.
C4_Original ==
    (flags.newPassword # "" /\ loadResult = "err") =>
        /\ exited
        /\ pwMutations = 0
        /\ \A n \in EnvNames : envWrites[n] = 0
        /\ ~insecureSkipVerify /\ dnsServer = ""
        /\ webpc = "none" /\ ~GateEntered /\ cycles = 0

\* C4 amended: in reset-password mode with a configuration that cannot be
\* loaded, the process exits with no password mutation, no skip-verify or
\* custom-DNS switch, no cache threshold written, no migration, no web
\* service and no update loop; the version and (for a non-empty -c) the
\* config path are the only process-wide values written, once each.
C4_ResetMissingConfig ==
    (flags.newPassword # "" /\ loadResult = "err") =>
        /\ exited /\ exitCode = 0
        /\ pwMutations = 0
        /\ envWrites["VersionEnv"] = 1
        /\ envWrites["ConfigFilePathENV"] =
              (IF flags.configFilePath # "" THEN 1 ELSE 0)
        /\ envWrites["IPCacheTimesENV"] = 0
        /\ ~insecureSkipVerify /\ dnsServer = "" /\ ~migrated
        /\ webpc = "none" /\ routes = {} /\ ~socketBound
        /\ ~GateEntered /\ cycles = 0

C4_Witness ==
    /\ flags.newPassword # "" /\ loadResult = "err" /\ exited
    /\ flags.skipVerify /\ flags.customDNS # ""

\* C5: a failed bind neither stops nor blocks the main goroutine: until the
\* exit its next statement can run (update cycles included), the process
\* is still alive before the sleep is over, and the exit has status 1 and
\* comes only when the whole grace period has elapsed.
C5_BindFailureLeavesMainRunning ==
    webErr = "bind" =>
        /\ (webpc # "exited" => ~exited)
        /\ (~exited /\ mainpc = "backupDNS" => ENABLED MainInitBackupDNS)
        /\ (~exited /\ mainpc = "wait" => ENABLED WaitInternetProbeOk)
        /\ (~exited /\ mainpc = "timer" /\ cycles < MaxCycles =>
               ENABLED RunTimerCycle)
        /\ (exited => /\ webpc = "exited" /\ exitCode = 1
                      /\ graceElapsed >= GraceTicks)

C5_Witness ==
    /\ webErr = "bind" /\ webpc = "sleep"
    /\ graceElapsed > 0 /\ graceElapsed < GraceTicks
    /\ mainpc = "timer" /\ cycles > 0 /\ ENABLED RunTimerCycle

\* C6: every web-service error, from bind or from serve, goes back to the
\* goroutine's closure (the process is not ended inside runWebServer), is
\* logged there, and is followed by the full grace period and in the end by
\* the exit of the process with status 1, never earlier.
C6_WebErrorLoggedThenDelayedExit ==
    /\ [](webErr # "" =>
            /\ webpc \in {"check", "sleep", "exit", "exited"}
            /\ (webpc # "check" => webErr \in Range(logs))
            /\ (webpc \in {"exit", "exited"} => graceElapsed >= GraceTicks)
            /\ (exited => webpc = "exited" /\ exitCode = 1))
    /\ [](webpc \in {"check", "sleep", "exit", "exited"} => webErr # "")
    /\ ((webErr # "") ~> (exited /\ exitCode = 1))

C6_Witness ==
    /\ webErr = "serve" /\ webpc = "exited" /\ exited /\ exitCode = 1
    /\ mainpc = "wait"

\* C7: the gate returns only on a successful probe, after every failing
\* one; the first update cycle comes after that success; main is never in
\* the gate and in the update timer at once.
C7_GateBeforeTimer ==
    /\ (mainpc = "timer" => connected)
    /\ (cycles > 0 => connected /\ mainpc = "timer")
    /\ (probeFails > 0 /\ ~connected => mainpc = "wait" /\ cycles = 0)
    /\ (mainpc = "wait" => ~connected /\ cycles = 0)

C7_Witness == probeFails > 1 /\ connected /\ cycles > 0

\* C8: with -v the process prints the version line and nothing else, and
\* ends with status 0 having loaded no configuration, written no
\* environment value, probed nothing and bound nothing.
C8_VersionOnly ==
    flags.versionFlag =>
        /\ stdout \in {<<>>, <<version>>}
        /\ logs = <<>>
        /\ configLoads = 0 /\ loadResult = "none"
        /\ \A n \in EnvNames : envWrites[n] = 0
        /\ ~tzFixed /\ ~insecureSkipVerify /\ dnsServer = ""
        /\ webpc = "none" /\ routes = {} /\ ~socketBound
        /\ ~GateEntered /\ cycles = 0
        /\ (mainpc # "parse" =>
               /\ mainpc = "returned" /\ exited /\ exitCode = 0
               /\ stdout = <<version>>)

C8_Witness ==
    /\ flags.versionFlag /\ exited /\ stdout = <<version>>
    /\ ~configExists /\ flags.newPassword = "" /\ ~flags.noWebService

C10_ForkAfterBootstrap ==
    webpc # "none" =>
        /\ envWrites["VersionEnv"] = 1 /\ env["VersionEnv"] = version
        /\ (flags.configFilePath # "" =>
               /\ envWrites["ConfigFilePathENV"] = 1
               /\ env["ConfigFilePathENV"] = Abs(flags.configFilePath))
        /\ envWrites["IPCacheTimesENV"] = 1
        /\ env["IPCacheTimesENV"] = ToString(flags.ipCacheTimes)
        /\ dnsServer = flags.customDNS
        /\ insecureSkipVerify = flags.skipVerify
        /\ loadResult # "none" /\ migrated /\ langInit

C10_Witness ==
    /\ webpc = "routes" /\ mainpc = "backupDNS"
    /\ flags.customDNS # "" /\ flags.configFilePath # ""

\* Live threads of control: main, the web goroutine once started, and the
\* browser goroutine while it runs.
Threads ==
    1 + (IF webpc \in {"none", "ended"} THEN 0 ELSE 1)
      + (IF explorerpc = "running" THEN 1 ELSE 0)

\* main has passed the statement that starts the web goroutine.
PastFork == mainpc \in {"backupDNS", "wait", "timer"}

\* C11 as stated: while the process runs past the fork there are exactly
\* two threads of control with the web service enabled and exactly one
\* with it disabled.
C11_Original ==
    (~exited /\ PastFork) =>
        Threads = (IF flags.noWebService THEN 1 ELSE 2)

\* C11 amended: with the web service disabled there is exactly one thread;
\* with it enabled there are main and one web goroutine, and at most one
\* more, the browser goroutine, which exists only after a successful bind
\* with no configuration and outside Docker.
C11_ThreadCount ==
    /\ (~exited /\ PastFork) =>
         IF flags.noWebService
           THEN Threads = 1
           ELSE /\ Threads \in {2, 3}
                /\ webpc \notin {"none", "ended"}
    /\ ~PastFork => Threads = 1
    /\ explorerpc # "none" =>
         /\ ~flags.noWebService /\ socketBound
         /\ ~configExists /\ ~runInDocker /\ openedURL # ""

C11_Witness ==
    /\ ~exited /\ Threads = 3 /\ mainpc = "timer" /\ webpc = "serve"

\* C12 as stated: after a failed load in normal mode the process does not
\* migrate the configuration, start the web goroutine, enter the gate or
\* run an update cycle.
C12_Original ==
    (flags.newPassword = "" /\ loadResult = "err") =>
        /\ ~migrated /\ webpc = "none"
        /\ ~GateEntered /\ cycles = 0

\* C12 amended: a failed load ends the run only in reset-password mode,
\* where nothing is migrated or started; in normal mode the error is
\* discarded, main goes on with the statements after the load, and the
\* process ends only through the web-service failure exit.
C12_LoadFailure ==
    /\ (flags.newPassword # "" /\ loadResult = "err") =>
         /\ exited /\ mainpc = "returned"
         /\ ~migrated /\ webpc = "none" /\ ~GateEntered /\ cycles = 0
    /\ (flags.newPassword = "" /\ loadResult = "err") =>
         /\ mainpc \in {"compat", "lang", "fork", "backupDNS", "wait",
                        "timer"}
         /\ (mainpc # "compat" => migrated)
         /\ (exited => webpc = "exited")

C12_Witness ==
    /\ flags.newPassword = "" /\ loadResult = "err" /\ ~exited
    /\ migrated /\ webpc = "serve" /\ mainpc = "timer" /\ cycles > 0

\* C13: once main is in the update timer it stays there; from then on the
\* process ends only by the web goroutine's exit with status 1, and with
\* -noweb it does not end at all.
C13_TimerNeverReturns ==
    [][mainpc = "timer" =>
          /\ mainpc' = "timer"
          /\ (exited' => /\ webpc' = "exited" /\ exitCode' = 1
                         /\ ~flags.noWebService)]_vars

C13_Witness ==
    /\ mainpc = "timer" /\ cycles > 0 /\ exited /\ webpc = "exited"
    /\ webErr = "bind"

\* C14 as stated: every load of the cached configuration, the migration
\* and the password reset happen while no other thread has been started.
C14_Original ==
    [][(\/ configLoads' # configLoads
        \/ migrated' # migrated
        \/ pwMutations' # pwMutations) => webpc = "none"]_vars

\* C14 amended: main's loads, the migration and the password reset happen
\* before the web goroutine is started; the one load made afterwards is
\* the one of autoOpenExplorer, on the web goroutine after the bind.
C14_LoadsBeforeForkButOne ==
    [][/\ (\/ loadResult' # loadResult
           \/ migrated' # migrated
           \/ pwMutations' # pwMutations) =>
             (webpc = "none" /\ webpc' = "none")
       /\ (configLoads' # configLoads /\ webpc # "none") =>
             /\ webpc = "autoOpen" /\ socketBound
             /\ PastFork /\ configLoads = 1 /\ configLoads' = 2]_vars

C14_Witness ==
    /\ configLoads = 2 /\ webpc = "serve" /\ mainpc = "wait" /\ ~exited

\* main has evaluated the reset-password test.
ResetBranchEvaluated ==
    \/ mainpc \in {"skipVerify", "setDNS", "setCache", "load", "compat",
                   "lang", "fork", "backupDNS", "wait", "timer"}
    \/ (mainpc = "returned" /\ ~flags.versionFlag)

VersionAndPathWritten ==
    /\ envWrites["VersionEnv"] = 1 /\ env["VersionEnv"] = version
    /\ (flags.configFilePath # "" =>
           /\ envWrites["ConfigFilePathENV"] = 1
           /\ env["ConfigFilePathENV"] = Abs(flags.configFilePath))

\* C15 as stated: when the reset-password test has been evaluated, the
\* version, the config path and the cache threshold have all been written.
C15_Original ==
    ResetBranchEvaluated =>
        /\ VersionAndPathWritten
        /\ envWrites["IPCacheTimesENV"] = 1

\* C15 amended: the version and the config path are written before the
\* reset-password test, before the global switches and before any load;
\* the cache threshold is written after the switches and before the load
\* of normal mode, and never in reset-password mode.
C15_PropagationOrder ==
    /\ ResetBranchEvaluated => VersionAndPathWritten
    /\ configLoads > 0 => VersionAndPathWritten
    /\ (insecureSkipVerify \/ dnsServer # "") => VersionAndPathWritten
    /\ mainpc \in {"skipVerify", "setDNS", "setCache"} =>
          envWrites["IPCacheTimesENV"] = 0
    /\ envWrites["IPCacheTimesENV"] = 1 =>
          /\ insecureSkipVerify = flags.skipVerify
          /\ dnsServer = flags.customDNS
    /\ (configLoads > 0 /\ flags.newPassword = "") =>
          envWrites["IPCacheTimesENV"] = 1
    /\ flags.newPassword # "" => envWrites["IPCacheTimesENV"] = 0

C15_Witness ==
    /\ flags.newPassword # "" /\ flags.configFilePath # ""
    /\ configLoads = 1 /\ loadResult = "ok" /\ exited
    /\ env["ConfigFilePathENV"] = "/cwd/conf.yaml"

\* C16 as stated: from service start on, each of the three values has
\* been written exactly once, whatever the flags.
C16_Original ==
    (PastFork \/ mainpc = "fork" \/ webpc # "none") =>
        \A n \in EnvNames : envWrites[n] = 1

\* C16 amended: from service start on, the version and the cache threshold
\* have been written exactly once and the config path exactly once for a
\* non-empty -c and not at all for an empty one; none is written again.
C16_WrittenOnce ==
    (PastFork \/ mainpc = "fork" \/ webpc # "none") =>
        /\ envWrites["VersionEnv"] = 1
        /\ envWrites["IPCacheTimesENV"] = 1
        /\ envWrites["ConfigFilePathENV"] =
              (IF flags.configFilePath # "" THEN 1 ELSE 0)
        /\ (flags.configFilePath = "" => env["ConfigFilePathENV"] = "")

C16_Witness ==
    /\ flags.configFilePath = "" /\ mainpc = "timer" /\ cycles > 0
    /\ webpc = "serve" /\ envWrites["ConfigFilePathENV"] = 0

\* The Docker hint was logged or the browser goroutine was started.
ConvenienceAttempted ==
    \/ "docker hint" \in Range(logs)
    \/ explorerpc # "none"
    \/ openedURL # ""

\* C17: the Docker hint or the browser launch happens only after a
\* successful bind and only with no configuration; whatever autoOpenExplorer
\* meets (configuration present or not, Docker or host, the address not
\* resolving, the browser goroutine still running), it can run at once, the
\* web goroutine goes on to http.Serve, and no error is set by it.
C17_ConvenienceNeverFails ==
    /\ [](ConvenienceAttempted =>
            /\ socketBound /\ ~configExists
            /\ webpc \in {"serve", "check", "sleep", "exit", "exited"}
            /\ ("docker hint" \in Range(logs) <=> runInDocker)
            /\ (webErr # "" => webErr = "serve"))
    /\ []((~exited /\ webpc = "autoOpen") =>
            /\ socketBound /\ webErr = ""
            /\ ENABLED WebAutoOpenExplorer)
    /\ [][webpc = "autoOpen" =>
            /\ webpc' \in {"autoOpen", "serve"}
            /\ webErr' = "" /\ ~exited']_vars
    /\ [][webpc' = "serve" /\ webpc # "serve" => webpc = "autoOpen"]_vars

C17_Witness ==
    /\ webpc = "serve" /\ ~exited /\ ~configExists /\ ~runInDocker
    /\ flags.listen = "myhost:9876" /\ explorerpc = "none"
    /\ openedURL = "" /\ configLoads = 2

\* SupervisedService: the state of the web service's lifecycle.
WebState ==
    CASE webpc = "none" -> "NotStarted"
      [] webpc \in {"routes", "listen"} -> "Starting"
      [] webpc \in {"autoOpen", "serve"} -> "Listening"
      [] OTHER -> "Failed"

\* C18: the lifecycle only moves Starting -> Listening, Starting -> Failed
\* and Listening -> Failed (after the start itself); Failed is never left;
\* the socket is bound at most once, by the one net.Listen; and a service
\* that has failed is followed by the end of the process.
C18_Lifecycle ==
    /\ [][WebState' # WebState =>
            <<WebState, WebState'>> \in
               {<<"NotStarted", "Starting">>, <<"Starting", "Listening">>,
                <<"Starting", "Failed">>, <<"Listening", "Failed">>}]_vars
    /\ [][WebState = "Failed" => WebState' = "Failed"]_vars
    /\ [][/\ (socketBound => socketBound')
          /\ (socketBound' # socketBound =>
                webpc = "listen" /\ webpc' = "autoOpen")
          /\ (webpc' = "listen" /\ webpc # "listen" => webpc = "routes")]_vars
    /\ ((WebState = "Failed") ~> exited)

C18_Witness ==
    /\ WebState = "Failed" /\ socketBound /\ webErr = "serve" /\ exited
    /\ mainpc = "timer"

\* C19: a web-service failure that finds main in the backup-DNS
\* initialisation or in the gate is still followed by the exit with
\* status 1 after the grace period, whatever main does meanwhile; the
\* web goroutine's way to the exit never waits for main.
C19_ExitWhateverMainPhase ==
    /\ []((~exited /\ webpc = "check") => ENABLED WebLogError)
    /\ []((~exited /\ webpc = "sleep") =>
             ENABLED WebSleepTick \/ ENABLED WebWake)
    /\ []((~exited /\ webpc = "exit") => ENABLED WebExit)
    /\ ((webErr # "" /\ mainpc \in {"backupDNS", "wait"}) ~>
           (exited /\ exitCode = 1 /\ graceElapsed >= GraceTicks))

C19_Witness ==
    /\ exited /\ exitCode = 1 /\ webpc = "exited" /\ webErr = "bind"
    /\ mainpc = "wait" /\ cycles = 0 /\ ~connected

\* C20: with the web service enabled the web goroutine exists from the
\* moment main reaches the backup-DNS initialisation, and each of its steps
\* up to serving can run whatever main is doing: with main in the gate and
\* no probe ever succeeding, the service still binds and serves.
C20_WebIndependentOfGate ==
    /\ (~flags.noWebService /\ PastFork) => webpc # "none"
    /\ (~exited /\ webpc = "routes") => ENABLED WebRegisterRoutes
    /\ (~exited /\ webpc = "listen") => ENABLED WebListen
    /\ (~exited /\ webpc = "autoOpen") => ENABLED WebAutoOpenExplorer
    /\ (webpc \in {"routes", "listen", "autoOpen"} => PastFork)

C20_Witness ==
    /\ webpc = "serve" /\ socketBound /\ ~exited
    /\ mainpc = "wait" /\ ~connected /\ probeFails > 1 /\ cycles = 0

====
